---- MODULE Spec2Model ----
(***************************************************************************)
(* Model of migrate.py: the rdbtools callback ElastiCacheMigrator, which   *)
(* replays the entries of a Redis dump into a single-keyspace target, and  *)
(* the driver migrate_rdb / main around it.                                *)
(*                                                                         *)
(* The parser (rdbtools.RdbParser) and the target (the redis client) are   *)
(* external: the parser is the environment that invokes the callbacks and  *)
(* may raise, the client is a key-value store whose calls may raise.       *)
(***************************************************************************)
EXTENDS Integers, Sequences, FiniteSets, TLC

(***************************************************************************)
(* Bounds of the model.                                                    *)
(***************************************************************************)
MaxEvents == 3    \* parser steps of a run
MaxRecorded == 3  \* parser steps of a run whose input is kept
MaxStrings == 4   \* parser steps of a run of string entries
MaxExpiring == 2  \* parser steps of a run of entries with expiries
MaxPushes == 4    \* parser steps of a run of list entries
MaxNames == 4     \* parser steps of a run over three databases

(***************************************************************************)
(* Input domains.  Keys are byte strings (sequences of byte values), as    *)
(* the parser hands them to the callbacks.                                 *)
(*   <<97>>                  b"a"                                          *)
(*   <<100, 98, 49, 58, 97>> b"db1:a"                                      *)
(*   <<255>>                 b"\xff", which is not valid UTF-8             *)
(*   <<100, 98, 50, 58, 97>> b"db2:a"                                      *)
(***************************************************************************)
KeyA == <<97>>
KeyDb1A == <<100, 98, 49, 58, 97>>
KeyBad == <<255>>
Keys == {KeyA, KeyDb1A, KeyBad}
DBs == 0 .. 1
KeyDb2A == <<100, 98, 50, 58, 97>>
NameKeys == {KeyA, KeyDb1A, KeyDb2A}
NameDBs == 0 .. 2
Values == {"1", "2"}
Fields == {"f1", "f2", "f3"}
HashValues == {"1"}
Members == {"m1", "m2"}
ZMembers == {"m1"}
Scores == 1 .. 2
NoExpiry == [some |-> FALSE, ms |-> 0]
Expiries == {NoExpiry, [some |-> TRUE, ms |-> 1005]}
\* The time on the target's clock, in milliseconds, when the client's set is
\* called: px counts from it, and the expiry of Expiries lies 5 ms after it.
Now == 1000
Types == {"string", "hash", "set", "list", "zset"}
Outcomes == {"ok", "transient", "fatal"}
DecodeConditions == {"TruncatedInput", "ChecksumMismatch", "UnsupportedVersion"}

VARIABLES
  client,      \* self.client: the contents of the target store
  dry_run,     \* self.dry_run
  prefix_dbs,  \* self.prefix_dbs
  current_db,  \* self.current_db
  stats,       \* self.stats
  pc,          \* where the run is: created, parsing, parsed, completed, failed
  exit_status, \* the process's exit status, -1 while it runs
  raised,      \* the exception that ended the run, "" if none
  n,           \* steps the parser has taken so far
  \* What the parser has sent and the client has answered, kept beside the
  \* program's own state to state the properties against.
  issued,      \* write calls made on the client
  failed,      \* write calls that raised
  recv,        \* callback events received, by type
  sel,         \* the database of the latest select-database event, 0 if none
  opened,      \* the databases selected so far
  last,        \* the latest callback event, the database it arrived in and the
               \* target key name computed for it
  early,       \* a string entry arrived before any select-database event
  entries,     \* entries replayed, by database
  src,         \* the string entries replayed: (database, key) -> value
  input        \* the events of the run, in order, when the run keeps them

vars ==
  <<client, dry_run, prefix_dbs, current_db, stats, pc, exit_status, raised, n,
    issued, failed, recv, sel, opened, last, early, entries, src, input>>

(***************************************************************************)
(* Python dicts: functions with a growing domain.                          *)
(***************************************************************************)
EmptyDict == [x \in {} |-> 0]
Has(d, k) == k \in DOMAIN d
Put(d, k, v) == [x \in (DOMAIN d) \cup {k} |-> IF x = k THEN v ELSE d[x]]

(***************************************************************************)
(* bytes.decode('utf-8') on the byte values the model uses.                *)
(***************************************************************************)
Chr(b) ==
  CASE b = 49 -> "1"
    [] b = 50 -> "2"
    [] b = 58 -> ":"
    [] b = 97 -> "a"
    [] b = 98 -> "b"
    [] b = 100 -> "d"
    [] OTHER -> "?"

ValidUtf8(bytes) == \A i \in 1 .. Len(bytes) : bytes[i] < 128

RECURSIVE decode(_)
decode(bytes) ==
  IF bytes = <<>> THEN "" ELSE Chr(Head(bytes)) \o decode(Tail(bytes))

(***************************************************************************)
(* The target store behind self.client.  A key holds one value of one      *)
(* kind; px is the time-to-live given with the value, 0 when there is none.*)
(* set replaces whatever the key holds; the member operations raise on a   *)
(* key that holds a value of another kind.                                 *)
(***************************************************************************)
Blank(kind) ==
  [kind |-> kind, str |-> "", px |-> 0, hash |-> EmptyDict, set |-> {},
   list |-> <<>>, zset |-> EmptyDict]

Held(store, k, kind) == IF Has(store, k) THEN store[k] ELSE Blank(kind)

WrongType(store, k, kind) == Has(store, k) /\ store[k].kind # kind

client_set(store, k, value, px) ==
  Put(store, k, [Blank("string") EXCEPT !.str = value, !.px = px])

client_hset(store, k, field, value) ==
  Put(store, k, [Held(store, k, "hash") EXCEPT !.hash = Put(@, field, value)])

client_sadd(store, k, member) ==
  Put(store, k, [Held(store, k, "set") EXCEPT !.set = @ \cup {member}])

client_rpush(store, k, value) ==
  Put(store, k, [Held(store, k, "list") EXCEPT !.list = Append(@, value)])

client_zadd(store, k, member, score) ==
  Put(store, k, [Held(store, k, "zset") EXCEPT !.zset = Put(@, member, score)])

(***************************************************************************)
(* ElastiCacheMigrator.  A migrator is the record of its fields; a         *)
(* callback maps a migrator to                                             *)
(*   self    the migrator after the call,                                  *)
(*   exc     the exception the callback let escape, "" if none,            *)
(*   key     the target key name it computed, "" if none,                  *)
(*   issued  the write calls it made on the client (0 or 1),               *)
(*   failed  the write calls that raised (0 or 1).                         *)
(* out is the outcome of the client call, if the callback makes one.       *)
(***************************************************************************)
NewStats == [total_keys |-> 0, by_type |-> EmptyDict, by_db |-> EmptyDict, errors |-> 0]

Migrator(redis_client, dry, prefix) ==
  [client |-> redis_client, dry_run |-> dry, prefix_dbs |-> prefix,
   current_db |-> 0, stats |-> NewStats]

Return(self, key, calls, errs) ==
  [self |-> self, exc |-> "", key |-> key, issued |-> calls, failed |-> errs]

Raise(self, exc) ==
  [self |-> self, exc |-> exc, key |-> "", issued |-> 0, failed |-> 0]

\* start_database as it would be if it did not record the new index.
start_database_keeping_index(self, db_number) ==
  LET st == self.stats
      by_db == IF Has(st.by_db, db_number) THEN st.by_db ELSE Put(st.by_db, db_number, 0)
  IN  Return([self EXCEPT !.stats.by_db = by_db], "", 0, 0)

start_database(self, db_number) ==
  LET st == self.stats
      by_db == IF Has(st.by_db, db_number) THEN st.by_db ELSE Put(st.by_db, db_number, 0)
  IN  Return([self EXCEPT !.current_db = db_number, !.stats.by_db = by_db], "", 0, 0)

end_database(self, db_number) ==
  IF Has(self.stats.by_db, db_number)
  THEN Return(self, "", 0, 0)
  ELSE Raise(self, "KeyError")

\* _get_key_name as it would be if it prefixed the keys of database 0 too.
get_key_name_prefixing_db0(self, key) ==
  IF ~ValidUtf8(key)
  THEN [ok |-> FALSE, str |-> ""]
  ELSE LET key_str == decode(key)
       IN  [ok |-> TRUE,
            str |-> IF self.prefix_dbs
                    THEN "db" \o ToString(self.current_db) \o ":" \o key_str
                    ELSE key_str]

\* _get_key_name as it would be if the prefix left out the database index.
get_key_name_without_index(self, key) ==
  IF ~ValidUtf8(key)
  THEN [ok |-> FALSE, str |-> ""]
  ELSE LET key_str == decode(key)
       IN  [ok |-> TRUE,
            str |-> IF self.prefix_dbs /\ self.current_db # 0
                    THEN "db" \o ":" \o key_str
                    ELSE key_str]

get_key_name(self, key) ==
  IF ~ValidUtf8(key)
  THEN [ok |-> FALSE, str |-> ""]
  ELSE LET key_str == decode(key)
       IN  [ok |-> TRUE,
            str |-> IF self.prefix_dbs /\ self.current_db # 0
                    THEN "db" \o ToString(self.current_db) \o ":" \o key_str
                    ELSE key_str]

Truthy(expiry) == expiry.some /\ expiry.ms # 0

\* _set_key as it would be if it counted the entry before the write call.
set_key_counting_first(self, key, value, expiry, out) ==
  LET target_key == get_key_name(self, key)
      st == self.stats
      px == IF Truthy(expiry) /\ expiry.ms > 0 THEN expiry.ms ELSE 0
      counted == [self EXCEPT !.stats.total_keys = @ + 1]
      written == [counted EXCEPT !.client = client_set(@, target_key.str, value, px)]
  IN  IF ~target_key.ok THEN Raise(self, "UnicodeDecodeError")
      ELSE IF self.dry_run THEN Return(self, target_key.str, 0, 0)
      ELSE IF out # "ok"
        THEN Return([counted EXCEPT !.stats.errors = @ + 1], target_key.str, 1, 1)
      ELSE IF Has(st.by_db, self.current_db)
        THEN Return([written EXCEPT !.stats.by_db[self.current_db] = @ + 1],
                    target_key.str, 1, 0)
      ELSE Return([written EXCEPT !.stats.errors = @ + 1], target_key.str, 1, 0)

\* _set_key as it would be if it counted every entry in database 0.
set_key_counting_db0(self, key, value, expiry, out) ==
  LET target_key == get_key_name(self, key)
      st == self.stats
      px == IF Truthy(expiry) /\ expiry.ms > 0 THEN expiry.ms ELSE 0
      written == [self EXCEPT !.client = client_set(@, target_key.str, value, px),
                              !.stats.total_keys = @ + 1]
  IN  IF ~target_key.ok THEN Raise(self, "UnicodeDecodeError")
      ELSE IF self.dry_run THEN Return(self, target_key.str, 0, 0)
      ELSE IF out # "ok"
        THEN Return([self EXCEPT !.stats.errors = @ + 1], target_key.str, 1, 1)
      ELSE IF Has(st.by_db, 0)
        THEN Return([written EXCEPT !.stats.by_db[0] = @ + 1], target_key.str, 1, 0)
      ELSE Return([written EXCEPT !.stats.errors = @ + 1], target_key.str, 1, 0)

set_key(self, key, value, expiry, out) ==
  LET target_key == get_key_name(self, key)
      st == self.stats
      px == IF Truthy(expiry) /\ expiry.ms > 0 THEN expiry.ms ELSE 0
      written == [self EXCEPT !.client = client_set(@, target_key.str, value, px),
                              !.stats.total_keys = @ + 1]
  IN  IF ~target_key.ok THEN Raise(self, "UnicodeDecodeError")
      ELSE IF self.dry_run THEN Return(self, target_key.str, 0, 0)
      ELSE IF out # "ok"
        THEN Return([self EXCEPT !.stats.errors = @ + 1], target_key.str, 1, 1)
      ELSE IF Has(st.by_db, self.current_db)
        THEN Return([written EXCEPT !.stats.by_db[self.current_db] = @ + 1],
                    target_key.str, 1, 0)
      ELSE Return([written EXCEPT !.stats.errors = @ + 1], target_key.str, 1, 0)

\* _track_type as it would be if it only recorded that the type was seen.
track_type_once(self, key_type) ==
  [self EXCEPT !.stats.by_type = Put(@, key_type, 1)]

track_type(self, key_type) ==
  LET by_type == IF Has(self.stats.by_type, key_type)
                 THEN self.stats.by_type
                 ELSE Put(self.stats.by_type, key_type, 0)
  IN  [self EXCEPT !.stats.by_type = [by_type EXCEPT ![key_type] = @ + 1]]

set(self, key, value, expiry, out) ==
  set_key(track_type(self, "string"), key, value, expiry, out)

\* hset as it would be without the dry-run return.
hset_writing_when_dry(self, key, field, value, out) ==
  LET tracked == track_type(self, "hash")
      target_key == get_key_name(tracked, key)
  IN  IF ~target_key.ok THEN Raise(tracked, "UnicodeDecodeError")
      ELSE IF out # "ok"
        THEN Return([tracked EXCEPT !.stats.errors = @ + 1], target_key.str, 1, 1)
      ELSE Return([tracked EXCEPT !.client = client_hset(@, target_key.str, field, value)],
                  target_key.str, 1, 0)

\* hset as it would be if its handler did not count the failure.
hset_not_counting(self, key, field, value, out) ==
  LET tracked == track_type(self, "hash")
      target_key == get_key_name(tracked, key)
  IN  IF ~target_key.ok THEN Raise(tracked, "UnicodeDecodeError")
      ELSE IF tracked.dry_run THEN Return(tracked, target_key.str, 0, 0)
      ELSE IF out # "ok"
        THEN Return(tracked, target_key.str, 1, 1)
      ELSE Return([tracked EXCEPT !.client = client_hset(@, target_key.str, field, value)],
                  target_key.str, 1, 0)

hset(self, key, field, value, out) ==
  LET tracked == track_type(self, "hash")
      target_key == get_key_name(tracked, key)
  IN  IF ~target_key.ok THEN Raise(tracked, "UnicodeDecodeError")
      ELSE IF tracked.dry_run THEN Return(tracked, target_key.str, 0, 0)
      ELSE IF out # "ok"
        THEN Return([tracked EXCEPT !.stats.errors = @ + 1], target_key.str, 1, 1)
      ELSE Return([tracked EXCEPT !.client = client_hset(@, target_key.str, field, value)],
                  target_key.str, 1, 0)

sadd(self, key, member, out) ==
  LET tracked == track_type(self, "set")
      target_key == get_key_name(tracked, key)
  IN  IF ~target_key.ok THEN Raise(tracked, "UnicodeDecodeError")
      ELSE IF tracked.dry_run THEN Return(tracked, target_key.str, 0, 0)
      ELSE IF out # "ok"
        THEN Return([tracked EXCEPT !.stats.errors = @ + 1], target_key.str, 1, 1)
      ELSE Return([tracked EXCEPT !.client = client_sadd(@, target_key.str, member)],
                  target_key.str, 1, 0)

\* rpush as it would be if it pushed the element at the head of the list.
rpush_pushing_left(self, key, value, out) ==
  LET tracked == track_type(self, "list")
      target_key == get_key_name(tracked, key)
      held == Held(tracked.client, target_key.str, "list")
      pushed == Put(tracked.client, target_key.str,
                    [held EXCEPT !.list = <<value>> \o @])
  IN  IF ~target_key.ok THEN Raise(tracked, "UnicodeDecodeError")
      ELSE IF tracked.dry_run THEN Return(tracked, target_key.str, 0, 0)
      ELSE IF out # "ok"
        THEN Return([tracked EXCEPT !.stats.errors = @ + 1], target_key.str, 1, 1)
      ELSE Return([tracked EXCEPT !.client = pushed], target_key.str, 1, 0)

rpush(self, key, value, out) ==
  LET tracked == track_type(self, "list")
      target_key == get_key_name(tracked, key)
  IN  IF ~target_key.ok THEN Raise(tracked, "UnicodeDecodeError")
      ELSE IF tracked.dry_run THEN Return(tracked, target_key.str, 0, 0)
      ELSE IF out # "ok"
        THEN Return([tracked EXCEPT !.stats.errors = @ + 1], target_key.str, 1, 1)
      ELSE Return([tracked EXCEPT !.client = client_rpush(@, target_key.str, value)],
                  target_key.str, 1, 0)

\* zadd as it would be if it added the score to the member's score.
zadd_incrementing(self, key, score, member, out) ==
  LET tracked == track_type(self, "zset")
      target_key == get_key_name(tracked, key)
      held == Held(tracked.client, target_key.str, "zset").zset
      sum == IF Has(held, member) THEN held[member] + score ELSE score
  IN  IF ~target_key.ok THEN Raise(tracked, "UnicodeDecodeError")
      ELSE IF tracked.dry_run THEN Return(tracked, target_key.str, 0, 0)
      ELSE IF out # "ok"
        THEN Return([tracked EXCEPT !.stats.errors = @ + 1], target_key.str, 1, 1)
      ELSE Return([tracked EXCEPT !.client = client_zadd(@, target_key.str, member, sum)],
                  target_key.str, 1, 0)

zadd(self, key, score, member, out) ==
  LET tracked == track_type(self, "zset")
      target_key == get_key_name(tracked, key)
  IN  IF ~target_key.ok THEN Raise(tracked, "UnicodeDecodeError")
      ELSE IF tracked.dry_run THEN Return(tracked, target_key.str, 0, 0)
      ELSE IF out # "ok"
        THEN Return([tracked EXCEPT !.stats.errors = @ + 1], target_key.str, 1, 1)
      ELSE Return([tracked EXCEPT !.client = client_zadd(@, target_key.str, member, score)],
                  target_key.str, 1, 0)

(***************************************************************************)
(* The parser's events.  An event is the callback the parser invokes with  *)
(* its arguments, and the outcome of the write call the callback makes.    *)
(***************************************************************************)
Ev(op, db, key, field, value, score, expiry, out) ==
  [op |-> op, db |-> db, key |-> key, field |-> field, value |-> value,
   score |-> score, expiry |-> expiry, out |-> out]

TypeOf(op) ==
  CASE op = "set" -> "string"
    [] op = "hset" -> "hash"
    [] op = "sadd" -> "set"
    [] op = "rpush" -> "list"
    [] op = "zadd" -> "zset"
    [] OTHER -> ""

\* The callback the parser invokes for an event.
Dispatch(self, e) ==
  CASE e.op = "start_database" -> start_database(self, e.db)
    [] e.op = "end_database" -> end_database(self, e.db)
    [] e.op = "set" -> set(self, e.key, e.value, e.expiry, e.out)
    [] e.op = "hset" -> hset(self, e.key, e.field, e.value, e.out)
    [] e.op = "sadd" -> sadd(self, e.key, e.field, e.out)
    [] e.op = "rpush" -> rpush(self, e.key, e.value, e.out)
    [] e.op = "zadd" -> zadd(self, e.key, e.score, e.field, e.out)

\* The outcomes the client can give to the call a callback makes: a member
\* operation on a key holding another kind of value cannot succeed.  A callback
\* that makes no call has no outcome to wait for.
CanAnswer(self, key, kind, out) ==
  LET target_key == get_key_name(self, key)
  IN  IF ~target_key.ok \/ self.dry_run THEN out = "ok"
      ELSE kind \notin {"", "string"} /\ WrongType(self.client, target_key.str, kind)
             => out # "ok"

(***************************************************************************)
(* The run: migrate_rdb builds the migrator and hands it to the parser,    *)
(* which invokes the callbacks in file order.                              *)
(***************************************************************************)
Self ==
  [client |-> client, dry_run |-> dry_run, prefix_dbs |-> prefix_dbs,
   current_db |-> current_db, stats |-> stats]

NoEvent == [e |-> Ev("", 0, <<>>, "", "", 0, NoExpiry, "ok"), db |-> 0, name |-> ""]

\* Two events belong to the same entry: same kind, database and key.
SameEntry(a, b) == a.e.op = b.e.op /\ a.db = b.db /\ a.e.key = b.e.key

Created(dry, prefix) ==
  /\ dry_run = Migrator(EmptyDict, dry, prefix).dry_run
  /\ prefix_dbs = Migrator(EmptyDict, dry, prefix).prefix_dbs
  /\ client = Migrator(EmptyDict, dry, prefix).client
  /\ current_db = Migrator(EmptyDict, dry, prefix).current_db
  /\ stats = Migrator(EmptyDict, dry, prefix).stats
  /\ pc = "created"
  /\ exit_status = -1
  /\ raised = ""
  /\ n = 0
  /\ issued = 0
  /\ failed = 0
  /\ recv = [t \in Types |-> 0]
  /\ sel = 0
  /\ opened = {}
  /\ last = NoEvent
  /\ early = FALSE
  /\ entries = [d \in DBs |-> 0]
  /\ src = EmptyDict
  /\ input = <<>>

Init == \E dry \in BOOLEAN, prefix \in BOOLEAN : Created(dry, prefix)

\* An exception that escapes a callback leaves parser.parse, is logged and
\* re-raised by migrate_rdb, and main exits with status 1.
Escapes(exc) ==
  IF exc = ""
  THEN UNCHANGED <<pc, exit_status, raised>>
  ELSE pc' = "failed" /\ exit_status' = 1 /\ raised' = exc

\* The parser invokes the callback of event e: the migrator's fields after it,
\* and the bookkeeping of what was sent and answered.
Callback(e, keep) ==
  /\ pc = "parsing"
  /\ CanAnswer(Self, e.key, TypeOf(e.op), e.out)
  /\ \E res \in {Dispatch(Self, e)} :
       LET type == TypeOf(e.op)
           this == [e |-> e, db |-> sel, name |-> res.key]
           replayed == res.exc = "" /\ (type = "string" => res.failed = 0)
           begins == type = "string" \/ ~SameEntry(last, this)
       IN  /\ client' = res.self.client
           /\ dry_run' = res.self.dry_run
           /\ prefix_dbs' = res.self.prefix_dbs
           /\ current_db' = res.self.current_db
           /\ stats' = res.self.stats
           /\ Escapes(res.exc)
           /\ n' = n + 1
           /\ issued' = issued + res.issued
           /\ failed' = failed + res.failed
           /\ recv' = IF type = "" THEN recv ELSE [recv EXCEPT ![type] = @ + 1]
           /\ sel' = IF e.op = "start_database" THEN e.db ELSE sel
           /\ opened' = IF e.op = "start_database" THEN opened \cup {e.db} ELSE opened
           /\ last' = this
           /\ early' = (early \/ (type = "string" /\ opened = {}))
           /\ entries' = IF type # "" /\ replayed /\ begins
                         THEN [entries EXCEPT ![sel] = @ + 1]
                         ELSE entries
           /\ src' = IF type = "string" /\ replayed
                     THEN Put(src, <<sel, e.key>>, e.value)
                     ELSE src
           /\ input' = IF keep THEN Append(input, e) ELSE input

Quiet == <<client, dry_run, prefix_dbs, current_db, stats,
           issued, failed, recv, sel, opened, last, early, entries, src, input>>

StartRdb ==
  /\ pc = "created"
  /\ pc' = "parsing"
  /\ UNCHANGED <<exit_status, raised, n>>
  /\ UNCHANGED Quiet

DoStartDatabase(bound, keep) ==
  \E db_number \in DBs :
    /\ n < bound
    /\ Callback(Ev("start_database", db_number, <<>>, "", "", 0, NoExpiry, "ok"), keep)

DoEndDatabase(bound, keep) ==
  \E db_number \in DBs :
    /\ n < bound
    /\ Callback(Ev("end_database", db_number, <<>>, "", "", 0, NoExpiry, "ok"), keep)

DoSet(bound, expiries, outs, keep) ==
  \E key \in Keys, value \in Values, expiry \in expiries, out \in outs :
    /\ n < bound
    /\ Callback(Ev("set", 0, key, "", value, 0, expiry, out), keep)

\* The parser hands the expiry of an aggregate entry to start_hash, start_set,
\* start_list or start_sorted_set, which the migrator inherits unchanged from
\* RdbCallback: the member callbacks are not given it.
DoHset(bound, expiries, outs, keep) ==
  \E key \in Keys, field \in Fields, value \in HashValues, expiry \in expiries,
     out \in outs :
    /\ n < bound
    /\ Callback(Ev("hset", 0, key, field, value, 0, expiry, out), keep)

DoSadd(bound, expiries, outs, keep) ==
  \E key \in Keys, member \in Members, expiry \in expiries, out \in outs :
    /\ n < bound
    /\ Callback(Ev("sadd", 0, key, member, "", 0, expiry, out), keep)

DoRpush(bound, expiries, outs, keep) ==
  \E key \in Keys, value \in Values, expiry \in expiries, out \in outs :
    /\ n < bound
    /\ Callback(Ev("rpush", 0, key, "", value, 0, expiry, out), keep)

DoZadd(bound, expiries, outs, keep) ==
  \E key \in Keys, score \in Scores, member \in ZMembers, expiry \in expiries,
     out \in outs :
    /\ n < bound
    /\ Callback(Ev("zadd", 0, key, member, "", score, expiry, out), keep)

\* end_rdb logs the statistics; parser.parse returns, migrate_rdb logs
\* "Migration completed!" and returns, and main ends with status 0.
DoEndRdb(bound) ==
  /\ pc = "parsing"
  /\ n < bound
  /\ pc' = "completed"
  /\ exit_status' = 0
  /\ n' = n + 1
  /\ raised' = raised
  /\ UNCHANGED Quiet

\* DoParseRaises as it would be if migrate_rdb logged the exception without
\* raising it again.
DoParseRaises_swallowing(bound) ==
  \E condition \in DecodeConditions :
    /\ pc \in {"created", "parsing"}
    /\ condition = "UnsupportedVersion" <=> pc = "created"
    /\ n < bound
    /\ pc' = "completed"
    /\ exit_status' = 0
    /\ raised' = condition
    /\ n' = n + 1
    /\ UNCHANGED Quiet

\* parser.parse raises a decode condition (an unsupported version when it reads
\* the header, before the first callback): migrate_rdb logs and re-raises, and
\* main exits with status 1.
DoParseRaises(bound) ==
  \E condition \in DecodeConditions :
    /\ pc \in {"created", "parsing"}
    /\ condition = "UnsupportedVersion" <=> pc = "created"
    /\ n < bound
    /\ pc' = "failed"
    /\ exit_status' = 1
    /\ raised' = condition
    /\ n' = n + 1
    /\ UNCHANGED Quiet

\* The migrator after the parser has fed it the events, stopping at the first
\* exception that escapes a callback.  A write that the target cannot accept
\* (a member operation on a key of another kind) fails whatever the event says.
RECURSIVE Run(_, _)
Run(self, events) ==
  IF events = <<>>
  THEN [self |-> self, exc |-> "", issued |-> 0, failed |-> 0]
  ELSE LET e == Head(events)
           out == IF CanAnswer(self, e.key, TypeOf(e.op), e.out) THEN e.out ELSE "transient"
           res == Dispatch(self, [e EXCEPT !.out = out])
           rest == Run(res.self, Tail(events))
       IN  IF res.exc # ""
           THEN [self |-> res.self, exc |-> res.exc, issued |-> res.issued,
                 failed |-> res.failed]
           ELSE [rest EXCEPT !.issued = @ + res.issued, !.failed = @ + res.failed]

(***************************************************************************)
(* A run: any callbacks in any order, any outcome of every write call.     *)
(***************************************************************************)
StartDatabase == DoStartDatabase(MaxEvents, FALSE)
EndDatabase == DoEndDatabase(MaxEvents, FALSE)
Set == DoSet(MaxEvents, Expiries, Outcomes, FALSE)
Hset == DoHset(MaxEvents, {NoExpiry}, Outcomes, FALSE)
Sadd == DoSadd(MaxEvents, {NoExpiry}, Outcomes, FALSE)
Rpush == DoRpush(MaxEvents, {NoExpiry}, Outcomes, FALSE)
Zadd == DoZadd(MaxEvents, {NoExpiry}, Outcomes, FALSE)
EndRdb == DoEndRdb(MaxEvents)
ParseRaises == DoParseRaises(MaxEvents)

Next ==
  \/ StartRdb
  \/ StartDatabase
  \/ EndDatabase
  \/ Set
  \/ Hset
  \/ Sadd
  \/ Rpush
  \/ Zadd
  \/ EndRdb
  \/ ParseRaises

Spec == Init /\ [][Next]_vars

(***************************************************************************)
(* A run whose input is kept and every write of which succeeds, so that    *)
(* the same input can be replayed again and in the other mode.             *)
(***************************************************************************)
KeptStartDatabase == DoStartDatabase(MaxRecorded, TRUE)
KeptSet == DoSet(MaxRecorded, Expiries, {"ok"}, TRUE)
KeptHset == DoHset(MaxRecorded, {NoExpiry}, {"ok"}, TRUE)
KeptSadd == DoSadd(MaxRecorded, {NoExpiry}, {"ok"}, TRUE)
KeptRpush == DoRpush(MaxRecorded, {NoExpiry}, {"ok"}, TRUE)
KeptZadd == DoZadd(MaxRecorded, {NoExpiry}, {"ok"}, TRUE)
KeptEndRdb == DoEndRdb(MaxRecorded)

NextKept ==
  \/ StartRdb
  \/ KeptStartDatabase
  \/ KeptSet
  \/ KeptHset
  \/ KeptSadd
  \/ KeptRpush
  \/ KeptZadd
  \/ KeptEndRdb

SpecKept == Init /\ [][NextKept]_vars

(***************************************************************************)
(* A live run with prefixing enabled over string entries in several        *)
(* databases.                                                              *)
(***************************************************************************)
InitStrings == Created(FALSE, TRUE)

StringsStartDatabase == DoStartDatabase(MaxStrings, FALSE)
StringsSet == DoSet(MaxStrings, {NoExpiry}, {"ok", "transient"}, FALSE)
StringsEndRdb == DoEndRdb(MaxStrings)

NextStrings ==
  \/ StartRdb
  \/ StringsStartDatabase
  \/ StringsSet
  \/ StringsEndRdb

SpecStrings == InitStrings /\ [][NextStrings]_vars

(***************************************************************************)
(* A live run over entries of every kind, with and without expiry, every   *)
(* write of which succeeds.                                                *)
(***************************************************************************)
InitExpiring == \E prefix \in BOOLEAN : Created(FALSE, prefix)

ExpiringStartDatabase == DoStartDatabase(MaxExpiring, FALSE)
ExpiringSet == DoSet(MaxExpiring, Expiries, {"ok"}, FALSE)
ExpiringHset == DoHset(MaxExpiring, Expiries, {"ok"}, FALSE)
ExpiringSadd == DoSadd(MaxExpiring, Expiries, {"ok"}, FALSE)
ExpiringRpush == DoRpush(MaxExpiring, Expiries, {"ok"}, FALSE)
ExpiringZadd == DoZadd(MaxExpiring, Expiries, {"ok"}, FALSE)
ExpiringEndRdb == DoEndRdb(MaxExpiring)

NextExpiring ==
  \/ StartRdb
  \/ ExpiringStartDatabase
  \/ ExpiringSet
  \/ ExpiringHset
  \/ ExpiringSadd
  \/ ExpiringRpush
  \/ ExpiringZadd
  \/ ExpiringEndRdb

SpecExpiring == InitExpiring /\ [][NextExpiring]_vars

(***************************************************************************)
(* A live run over list entries in several databases, whose input is kept  *)
(* and any append of which may fail.                                       *)
(***************************************************************************)
InitLists == \E prefix \in BOOLEAN : Created(FALSE, prefix)

ListsStartDatabase == DoStartDatabase(MaxPushes, TRUE)
ListsRpush == DoRpush(MaxPushes, {NoExpiry}, {"ok", "transient"}, TRUE)
ListsEndRdb == DoEndRdb(MaxPushes)

NextLists ==
  \/ StartRdb
  \/ ListsStartDatabase
  \/ ListsRpush
  \/ ListsEndRdb

SpecLists == InitLists /\ [][NextLists]_vars

(***************************************************************************)
(* A run with prefixing enabled over string entries in three databases,    *)
(* some keys of which have the form of a prefixed key.                     *)
(***************************************************************************)
InitNames == \E dry \in BOOLEAN : Created(dry, TRUE)

NamesStartDatabase ==
  \E db_number \in NameDBs :
    /\ n < MaxNames
    /\ Callback(Ev("start_database", db_number, <<>>, "", "", 0, NoExpiry, "ok"), FALSE)

NamesSet ==
  \E key \in NameKeys, value \in Values :
    /\ n < MaxNames
    /\ Callback(Ev("set", 0, key, "", value, 0, NoExpiry, "ok"), FALSE)

NamesEndRdb == DoEndRdb(MaxNames)

NextNames ==
  \/ StartRdb
  \/ NamesStartDatabase
  \/ NamesSet
  \/ NamesEndRdb

SpecNames == InitNames /\ [][NextNames]_vars

(***************************************************************************)
(* Properties.                                                             *)
(***************************************************************************)
\* The text of the keys of the model, and the target key name expected for
\* a key of a database when prefixing is enabled.
Text(key) ==
  CASE key = KeyA -> "a"
    [] key = KeyDb1A -> "db1:a"
    [] OTHER -> ""

Prefixed(d, key) == IF d = 0 THEN Text(key) ELSE "db" \o ToString(d) \o ":" \o Text(key)

RECURSIVE SumOver(_, _)
SumOver(f, S) ==
  IF S = {} THEN 0 ELSE LET x == CHOOSE x \in S : TRUE IN f[x] + SumOver(f, S \ {x})

EntryCount == SumOver(entries, DBs)

IsEntry(ev) == TypeOf(ev.e.op) # ""

C2_DryRunNoWrites == dry_run => (issued = 0 /\ DOMAIN client = {})

C2_Witness ==
  /\ dry_run
  /\ opened # {}
  /\ recv["string"] > 0
  /\ recv["hash"] > 0

\* C3: a dry run ends with the statistics of the live run over the same events
\* in which every write succeeds.
LiveRun == Run(Migrator(EmptyDict, FALSE, prefix_dbs), input)

C3_DryRunEquivalence ==
  (dry_run /\ ~early /\ LiveRun.failed = 0) => stats = LiveRun.self.stats

\* C4: a write call that raises adds exactly one to the error counter, leaves
\* the run parsing and the target store as it was; a step other than a set
\* never removes a field from a hash of the target, and a hset that succeeds
\* leaves its field in the hash of its target key.
C4_FailureIsolation ==
  [][/\ failed' # failed =>
          /\ failed' = failed + 1
          /\ stats'.errors = stats.errors + 1
          /\ pc' = "parsing"
          /\ raised' = ""
          /\ client' = client
     /\ last'.e.op # "set" =>
          \A k \in DOMAIN client :
            /\ k \in DOMAIN client'
            /\ DOMAIN client[k].hash \subseteq DOMAIN client'[k].hash
     /\ (last'.e.op = "hset" /\ issued' = issued + 1 /\ failed' = failed) =>
          /\ last'.name \in DOMAIN client'
          /\ last'.e.field \in DOMAIN client'[last'.name].hash
          /\ client'[last'.name].hash[last'.e.field] = last'.e.value
    ]_vars

\* A hash with three fields, the write of the second of which failed.
C4_Witness ==
  /\ ~dry_run
  /\ recv["hash"] = 3
  /\ issued = 3
  /\ failed = 1
  /\ stats.errors = 1
  /\ pc = "parsing"
  /\ last.e.op = "hset"
  /\ last.name \in DOMAIN client
  /\ Cardinality(DOMAIN client[last.name].hash) = 2
  /\ last.e.field \in DOMAIN client[last.name].hash

\* C5: in live mode total_keys and the counter of the entry's database have
\* been incremented once for every entry replayed, aggregate entries included.
C5_TopLevelCounters ==
  (~dry_run /\ ~early) =>
    /\ stats.total_keys = EntryCount
    /\ \A d \in opened : stats.by_db[d] = entries[d]

\* C6 as claimed: after a live replay with prefixing enabled of string entries,
\* each preceded by its select-database event and every write succeeding, every
\* entry (d, k, v) is in the target under its prefixed name with value v,
\* total_keys is the number of entries and by_db[d] the number of entries of d.
StringReplay == ~dry_run /\ prefix_dbs /\ ~early /\ failed = 0

StringCounts ==
  /\ stats.total_keys = EntryCount
  /\ DOMAIN stats.by_db = opened
  /\ \A d \in opened : stats.by_db[d] = entries[d]

C6_AsClaimed ==
  StringReplay =>
    /\ \A p \in DOMAIN src :
         /\ Prefixed(p[1], p[2]) \in DOMAIN client
         /\ client[Prefixed(p[1], p[2])].kind = "string"
         /\ client[Prefixed(p[1], p[2])].str = src[p]
    /\ StringCounts

\* C6: the same of every entry replayed, the value held under the target key
\* being that of one of the entries with that target key, and so v when the
\* entry is the only one.
C6_MultiDatabaseReplay ==
  StringReplay =>
    /\ \A p \in DOMAIN src :
         LET name == Prefixed(p[1], p[2])
             same == {q \in DOMAIN src : Prefixed(q[1], q[2]) = name}
         IN  /\ name \in DOMAIN client
             /\ client[name].kind = "string"
             /\ client[name].str \in {src[q] : q \in same}
    /\ StringCounts

C6_Witness ==
  /\ StringReplay
  /\ DOMAIN src = {<<0, KeyA>>, <<1, KeyA>>}
  /\ src[<<0, KeyA>>] = "1"
  /\ src[<<1, KeyA>>] = "2"
  /\ DOMAIN client = {"a", "db1:a"}
  /\ client["a"].str = "1"
  /\ client["db1:a"].str = "2"
  /\ stats.total_keys = 2
  /\ stats.by_db = [d \in {0, 1} |-> 1]

\* C7: after a write call has raised a fatal failure, no write call is made
\* (in a run whose string entries all follow a select-database event).
C7_FatalWriteAborts ==
  [][(last.e.out = "fatal" /\ ~early') => issued' = issued]_vars

\* C8: when the run fails with ChecksumMismatch, no entry has been replayed to
\* the target (in a run whose string entries all follow a select-database
\* event).
C8_ChecksumBeforeReplay == (raised = "ChecksumMismatch" /\ ~early) => issued = 0

\* C9: once the parser has raised a decode condition the run has failed with
\* exit status 1; a failed run makes no further write call and never
\* completes; a write call that raises leaves the run parsing, and a run
\* fails only by an exception that left a callback or the parser.
C9_DecodeFatal ==
  /\ [](raised \in DecodeConditions => (pc = "failed" /\ exit_status = 1))
  /\ [](exit_status = 1 <=> pc = "failed")
  /\ [](pc = "failed" =>
          raised \in DecodeConditions \cup {"KeyError", "UnicodeDecodeError"})
  /\ [][pc = "failed" => (pc' = "failed" /\ issued' = issued /\ client' = client)]_vars
  /\ [][failed' # failed => pc' = "parsing"]_vars

C9_Witness ==
  /\ raised = "ChecksumMismatch"
  /\ pc = "failed"
  /\ exit_status = 1
  /\ issued = 2
  /\ failed = 1

\* C10: replaying the input of a live run once more against the target it left,
\* every write succeeding both times, leaves the target as it was when the
\* input has no list element, and changes it when it has one.
SecondRun == Run(Migrator(client, FALSE, prefix_dbs), input)

Replayed == ~dry_run /\ raised = "" /\ failed = 0 /\ SecondRun.failed = 0

C10_Idempotence ==
  Replayed =>
    IF recv["list"] = 0
    THEN SecondRun.self.client = client
    ELSE SecondRun.self.client # client

C10_Witness ==
  /\ Replayed
  /\ recv["list"] = 0
  /\ recv["zset"] = 2
  /\ recv["hash"] = 1
  /\ DOMAIN client = {"a", "db1:a"}

\* C11: a string entry replayed live is under its target key as a string with
\* the raw value and, when the entry carries an expiry, a time-to-live of the
\* expiry minus the current time, and no time-to-live when it carries none
\* (in a run whose string entries all follow a select-database event).
C11_StringExpiry ==
  (last.e.op = "set" /\ ~dry_run /\ last.e.out = "ok" /\ ~early
     /\ raised # "UnicodeDecodeError") =>
    /\ last.name \in DOMAIN client
    /\ client[last.name] =
         [Blank("string") EXCEPT
            !.str = last.e.value,
            !.px = IF last.e.expiry.some THEN last.e.expiry.ms - Now ELSE 0]

\* C12: in a live run whose writes all succeed, the target key of an entry
\* that carries an expiry has a time-to-live once the entry (a string, or a
\* member of a hash, set, list or sorted set) has been replayed.
C12_ExpiryHonoured ==
  (~dry_run /\ IsEntry(last) /\ last.e.expiry.some /\ last.e.out = "ok"
     /\ raised # "UnicodeDecodeError") =>
    /\ last.name \in DOMAIN client
    /\ client[last.name].px > 0

\* C13: the count that end_database reports for the database it closes, the
\* database's counter in by_db, is the number of entries of every kind
\* replayed for that database so far (in a run whose string entries all
\* follow a select-database event).
C13_EndDatabaseCount ==
  (last.e.op = "end_database" /\ last.e.db = last.db /\ raised # "KeyError"
     /\ ~early) =>
    stats.by_db[last.e.db] = entries[last.e.db]

\* The target key expected for a key of a database, the elements appended with
\* success to a target key by the events of an input, the entries of an input
\* (a run of consecutive events of one key is one entry), and the elements
\* appended with success by the latest entry.
TargetName(d, key) == IF prefix_dbs THEN Prefixed(d, key) ELSE Text(key)

RECURSIVE Pushed(_, _, _)
Pushed(events, db, name) ==
  IF events = <<>> THEN <<>>
  ELSE LET e == Head(events)
           d == IF e.op = "start_database" THEN e.db ELSE db
           mine == /\ e.op = "rpush"
                   /\ e.out = "ok"
                   /\ e.key # KeyBad
                   /\ TargetName(d, e.key) = name
       IN  (IF mine THEN <<e.value>> ELSE <<>>) \o Pushed(Tail(events), d, name)

RECURSIVE Starts(_, _, _)
Starts(events, db, prev) ==
  IF events = <<>> THEN <<>>
  ELSE LET e == Head(events)
           d == IF e.op = "start_database" THEN e.db ELSE db
           this == <<d, e.key>>
       IN  IF e.op # "rpush" THEN Starts(Tail(events), d, <<>>)
           ELSE (IF this = prev THEN <<>> ELSE <<this>>) \o Starts(Tail(events), d, this)

RECURSIVE Trailing(_)
Trailing(events) ==
  IF events = <<>> THEN <<>>
  ELSE LET e == events[Len(events)]
       IN  IF e.op = "rpush" /\ e.key = last.e.key
           THEN Trailing(SubSeq(events, 1, Len(events) - 1))
                  \o (IF e.out = "ok" THEN <<e.value>> ELSE <<>>)
           ELSE <<>>

\* Every entry of the input has its own (database, key).
WellFormed ==
  LET starts == Starts(input, 0, <<>>)
  IN  \A i, j \in 1 .. Len(starts) : i # j => starts[i] # starts[j]

\* No other entry of the input has the target key of the latest entry.
Alone ==
  LET starts == Starts(input, 0, <<>>)
  IN  \A i \in 1 .. Len(starts) :
        TargetName(starts[i][1], starts[i][2]) = last.name
          => starts[i] = <<last.db, last.e.key>>

ListNames == {TargetName(d, k) : d \in DBs, k \in Keys \ {KeyBad}}

ListReplayed ==
  /\ ~dry_run
  /\ last.e.op = "rpush"
  /\ last.name \in DOMAIN client
  /\ WellFormed

NameOf(p) == get_key_name([Self EXCEPT !.current_db = p[1]], p[2]).str

ThroughDb0(p, q) ==
  /\ p[1] = 0
  /\ q[1] # 0
  /\ p[2] = <<100, 98, 48 + q[1], 58>> \o q[2]

\* C15: with prefixing enabled, two distinct (database, key) pairs have the
\* same target key only if one of them is in database 0 and its key is the
\* prefixed form of the other, which is in another database; the name computed
\* for an entry of the run is that of its (database, key) pair.
C15_CollisionsThroughDb0 ==
  prefix_dbs =>
    /\ \A p, q \in NameDBs \X NameKeys :
         (p # q /\ NameOf(p) = NameOf(q)) => (ThroughDb0(p, q) \/ ThroughDb0(q, p))
    /\ IsEntry(last) => last.name = NameOf(<<last.db, last.e.key>>)

\* The entry "db1:a" of database 0 and the entry "a" of database 1, both
\* replayed to "db1:a".
C15_Witness ==
  /\ prefix_dbs
  /\ ~dry_run
  /\ <<0, KeyDb1A>> \in DOMAIN src
  /\ last.db = 1
  /\ last.e.key = KeyA
  /\ last.name = "db1:a"
  /\ NameOf(<<0, KeyDb1A>>) = last.name
  /\ DOMAIN client = {"db1:a"}

\* C16: current_db is the index of the latest select-database event, 0 when
\* there was none; the name of an entry is computed with it, and the counter
\* a string entry written with success increments is that of this database;
\* only a select-database event changes current_db, and no step changes
\* dry_run or prefix_dbs.
C16_DatabaseFrame ==
  /\ [](current_db = sel)
  /\ [](opened = {} => current_db = 0)
  /\ [](last.e.op = "start_database" => current_db = last.e.db)
  /\ []((IsEntry(last) /\ raised # "UnicodeDecodeError") =>
          last.name = TargetName(last.db, last.e.key))
  /\ [][dry_run' = dry_run /\ prefix_dbs' = prefix_dbs]_vars
  /\ [][(last'.e.op # "start_database") => current_db' = current_db]_vars
  /\ [][(last'.e.op = "set" /\ issued' = issued + 1 /\ failed' = failed
           /\ opened # {}) =>
          stats'.by_db = [stats.by_db EXCEPT ![sel] = @ + 1]]_vars

\* A string entry written to database 1 after entries of database 0.
C16_Witness ==
  /\ ~dry_run
  /\ prefix_dbs
  /\ opened = {0, 1}
  /\ sel = 1
  /\ current_db = 1
  /\ last.e.op = "set"
  /\ last.db = 1
  /\ last.name = "db1:a"
  /\ stats.by_db = (0 :> 0 @@ 1 :> 1)

\* C17: a string entry whose write call raises in live mode adds one to
\* errors and leaves total_keys, every counter of by_db and the target store
\* as they were.
C17_FailedStringWrite ==
  [][(last'.e.op = "set" /\ failed' = failed + 1) =>
       /\ ~dry_run
       /\ stats'.errors = stats.errors + 1
       /\ stats'.total_keys = stats.total_keys
       /\ stats'.by_db = stats.by_db
       /\ client' = client
       /\ pc' = "parsing"]_vars

\* A string entry whose write failed, after one written with success to the
\* same key.
C17_Witness ==
  /\ ~dry_run
  /\ last.e.op = "set"
  /\ last.e.out = "transient"
  /\ last.e.value = "2"
  /\ failed = 1
  /\ issued = 2
  /\ stats.errors = 1
  /\ stats.total_keys = 1
  /\ stats.by_db = (0 :> 1)
  /\ last.name \in DOMAIN client
  /\ client[last.name].str = "1"

\* C18: in every state total_keys is the sum of the counters of by_db, and
\* errors is the number of write calls that raised.
C18_CounterSums ==
  /\ stats.total_keys = SumOver(stats.by_db, DOMAIN stats.by_db)
  /\ stats.errors = failed

\* C19: by_type has a counter for exactly the types of which a callback event
\* was received, and the counter of a type is the number of its events
\* received, in a dry and in a live run, whatever the outcome of the writes.
C19_TypeCounters ==
  /\ DOMAIN stats.by_type = {t \in Types : recv[t] > 0}
  /\ \A t \in DOMAIN stats.by_type : stats.by_type[t] = recv[t]

\* A live run of a string entry and two hash fields, the write of one of
\* which failed.
C19_Witness ==
  /\ ~dry_run
  /\ failed = 1
  /\ issued = 3
  /\ recv["string"] = 1
  /\ recv["hash"] = 2
  /\ stats.by_type = [t \in {"string", "hash"} |-> IF t = "hash" THEN 2 ELSE 1]
====
